---- MODULE Spec2Model ----
(***************************************************************************)
(* Model of script.js: the lunar phase arithmetic (frac, toJulian,         *)
(* moonPhase, phaseName), the icon generator (moonSVG), the two render     *)
(* operations (renderToday, render7) and the two callbacks that drive      *)
(* them (the toggle click handler and the setInterval callback).           *)
(*                                                                         *)
(* Time is counted in ticks of one tenth of a day since the Unix epoch,    *)
(* which keeps the Julian constants 2440587.5 and 2451550.1 exact.  Real   *)
(* numbers are exact rationals [num, den]; their numerators need more than *)
(* 32 bits, so they are kept as two limbs <<h, l>> = h * Base + l.  The    *)
(* local time zone is taken at offset 0, so that the local calendar fields *)
(* and getTime() describe the same tick.  The cosine of the illumination   *)
(* and the toFixed / toLocaleString texts of the regions 'now',            *)
(* 'todayIllum' and 'todayAge' are write-only outputs and are left out.    *)
(***************************************************************************)
EXTENDS Integers, Sequences, FiniteSets, TLC

VARIABLES now, display, text, grid, today, base7, lastEvent, calls, hist,
          ticks, pc, fnArg, fnOut

vars == <<now, display, text, grid, today, base7, lastEvent, calls, hist,
          ticks, pc, fnArg, fnOut>>

(***************************************************************************)
(* Bounds of the model.                                                    *)
(***************************************************************************)
MaxTicks == 4
TickStep == 5
NumIds == 8
PGrid == 1000
SpanT == 600

(***************************************************************************)
(* Two-limb integers and rationals.                                        *)
(***************************************************************************)
Base == 10^6

Norm(h, l) == <<h + (l \div Base), l % Base>>

LInt(n) == Norm(0, n)

LMul(c, x) == Norm(c * x[1], c * x[2])

LSub(x, y) == Norm(x[1] - y[1], x[2] - y[2])

LLt(x, y) == x[1] < y[1] \/ (x[1] = y[1] /\ x[2] < y[2])

LLe(x, y) == x = y \/ LLt(x, y)

Abs(n) == IF n < 0 THEN -n ELSE n

\* Math.floor of the rational x: the greatest integer q with q <= x.
MathFloor(x) ==
  LET e == x.num[1] \div x.den[1]
      w == 2 + (Abs(e) \div 1000)
  IN  CHOOSE q \in (e - w)..(e + w) :
        /\ LLe(LMul(q, x.den), x.num)
        /\ LLt(x.num, LMul(q + 1, x.den))

\* Truncation toward zero (what x % 1 or Math.trunc would use).
MathTrunc(x) ==
  IF LLe(LInt(0), x.num) THEN MathFloor(x)
  ELSE -MathFloor([num |-> LSub(LInt(0), x.num), den |-> x.den])

frac_trunc(x) == [num |-> LSub(x.num, LMul(MathTrunc(x), x.den)), den |-> x.den]

\* const frac = x => x - Math.floor(x);
frac(x) == [num |-> LSub(x.num, LMul(MathFloor(x), x.den)), den |-> x.den]

(***************************************************************************)
(* Time: ticks of a tenth of a day.                                        *)
(***************************************************************************)
TicksPerDay == 10
JDUnixEpoch == 24405875
JDRefNewMoon == 24515501

\* 29.530588853 days in units of 1e-9 day, as limbs.
synodic == <<29530, 588853>>

\* date.getTime()/86400000 + 2440587.5, in ticks.
toJulian(t) == t + JDUnixEpoch

\* moonPhase(date): k = (jd - 2451550.1) / synodic, p = frac(k),
\* age = p * synodic.  k has numerator (jd - ref) * 1e8 over synodic (the
\* tick is 1e8 units of 1e-9 day); age = p.num * 1e-9 days since p.den is
\* synodic.
moonPhase(t) ==
  LET jd == toJulian(t)
      k  == [num |-> Norm((jd - JDRefNewMoon) * 100, 0), den |-> synodic]
      p  == frac(k)
  IN  [phase |-> p, ageDays |-> [num |-> p.num, den |-> <<1000, 0>>]]

\* p < c/100 for a rational p with positive denominator.
Below(p, c) == LLt(LMul(100, p.num), LMul(c, p.den))

Above(p, c) == LLt(LMul(c, p.den), LMul(100, p.num))

phaseName_le(p) ==
  IF Below(p, 3) \/ Above(p, 97) THEN "New Moon"
  ELSE IF ~Above(p, 22) THEN "Waxing Crescent"
  ELSE IF Below(p, 28) THEN "First Quarter"
  ELSE IF Below(p, 47) THEN "Waxing Gibbous"
  ELSE IF Below(p, 53) THEN "Full Moon"
  ELSE IF Below(p, 72) THEN "Waning Gibbous"
  ELSE IF Below(p, 78) THEN "Last Quarter"
  ELSE "Waning Crescent"

phaseName(p) ==
  IF Below(p, 3) \/ Above(p, 97) THEN "New Moon"
  ELSE IF Below(p, 22) THEN "Waxing Crescent"
  ELSE IF Below(p, 28) THEN "First Quarter"
  ELSE IF Below(p, 47) THEN "Waxing Gibbous"
  ELSE IF Below(p, 53) THEN "Full Moon"
  ELSE IF Below(p, 72) THEN "Waning Gibbous"
  ELSE IF Below(p, 78) THEN "Last Quarter"
  ELSE "Waning Crescent"

\* moonSVG(p, size): x = 2*p - 1, dir = x >= 0 ? 1 : -1, and the identifier
\* drawn from Math.random() that scopes the gradient, filter, clip and mask.
moonSVG(p, size, rnd) ==
  LET x   == [num |-> LSub(LMul(2, p.num), p.den), den |-> p.den]
      dir == IF LLe(LInt(0), x.num) THEN 1 ELSE -1
  IN  [id |-> rnd, size |-> size, dir |-> dir]

(***************************************************************************)
(* The local calendar of Date (ECMA-262 day arithmetic).                   *)
(***************************************************************************)
Day(t) == t \div TicksPerDay

InLeapYear(y) == (y % 4 = 0 /\ y % 100 # 0) \/ y % 400 = 0

DayFromYear(y) ==
  365 * (y - 1970) + ((y - 1969) \div 4) - ((y - 1901) \div 100)
    + ((y - 1601) \div 400)

DaysInMonth(y, m) ==
  IF m = 1 THEN (IF InLeapYear(y) THEN 29 ELSE 28)
  ELSE IF m \in {3, 5, 8, 10} THEN 30 ELSE 31

RECURSIVE DaysBeforeMonth(_, _)
DaysBeforeMonth(y, m) ==
  IF m = 0 THEN 0 ELSE DaysBeforeMonth(y, m - 1) + DaysInMonth(y, m - 1)

\* getFullYear()
getFullYear(t) ==
  LET e == 1970 + (Day(t) \div 365)
  IN  CHOOSE y \in (e - 1)..(e + 1) :
        DayFromYear(y) <= Day(t) /\ Day(t) < DayFromYear(y + 1)

\* getMonth(), 0-based
getMonth(t) ==
  LET y   == getFullYear(t)
      diy == Day(t) - DayFromYear(y)
  IN  CHOOSE m \in 0..11 :
        DaysBeforeMonth(y, m) <= diy /\ diy < DaysBeforeMonth(y, m) + DaysInMonth(y, m)

\* getDate()
getDate(t) ==
  LET y == getFullYear(t)
  IN  Day(t) - DayFromYear(y) - DaysBeforeMonth(y, getMonth(t)) + 1

\* getDay(): 1970-01-01 was a Thursday
getDay(t) == (Day(t) + 4) % 7

MakeDay_clamp(year, month, date) ==
  LET ym == year + (month \div 12)
      mn == month % 12
      dt == IF date > DaysInMonth(ym, mn) THEN DaysInMonth(ym, mn) ELSE date
  IN  DayFromYear(ym) + DaysBeforeMonth(ym, mn) + dt - 1

\* The day number of new Date(year, month, date): a date past the end of
\* the month runs on into the following months.
MakeDay(year, month, date) ==
  LET ym == year + (month \div 12)
      mn == month % 12
  IN  DayFromYear(ym) + DaysBeforeMonth(ym, mn) + date - 1

\* new Date(year, month, date): local midnight of that day.
NewDate(year, month, date) == MakeDay(year, month, date) * TicksPerDay

\* toLocaleDateString with weekday, year, month, day
fmtDate(t) ==
  [weekday |-> getDay(t), year |-> getFullYear(t), month |-> getMonth(t),
   day |-> getDate(t)]

\* toLocaleDateString with weekday, month, day
fmtShort(t) ==
  [weekday |-> getDay(t), month |-> getMonth(t), day |-> getDate(t)]

(***************************************************************************)
(* The page: the regions the script writes and the two callbacks.          *)
(***************************************************************************)
ForecastDays == 7
TodaySize == 160
CardSize == 120

ShowText == "> Next 7 Days"
HideText == "v Hide Next 7 Days"

\* Values Math.random() can return (as the identifier made from them).
IdSpace == 0..(NumIds - 1)

\* Math.random() may return any value of IdSpace on any call.  The outcomes
\* enumerated are: for the call of renderToday the values 0 and 1, and for
\* the seven calls of one render7 a run of consecutive values that starts
\* after 0 or after 1, so equal and distinct identifiers both occur.
RandomToday == {r \in IdSpace : r < 2}

RandomRuns == {[i \in 1..ForecastDays |-> (s + i) % NumIds] : s \in RandomToday}

\* renderToday(): the regions todayMoon, todayLabel and todayDate.
renderToday(t, rnd) ==
  LET r == moonPhase(t)
  IN  [moon  |-> moonSVG(r.phase, TodaySize, rnd),
       label |-> phaseName(r.phase),
       date  |-> fmtDate(t)]

\* The card of the i-th iteration of the loop of render7.
Card(base, i, rnd) ==
  LET d == NewDate(getFullYear(base), getMonth(base), getDate(base) + i)
      r == moonPhase(d)
  IN  [moon  |-> moonSVG(r.phase, CardSize, rnd),
       label |-> phaseName(r.phase),
       date  |-> fmtShort(d)]

render7_append(g, base, draws) ==
  g \o [i \in 1..ForecastDays |-> Card(base, i, draws[i])]

\* render7(): grid.innerHTML = '' and then one appended card per day.
render7(g, base, draws) ==
  LET cleared == <<>>
  IN  cleared \o [i \in 1..ForecastDays |-> Card(base, i, draws[i])]

\* The state of the document before the script runs.
InitDOM ==
  /\ display = "none"
  /\ text = ShowText
  /\ grid = <<>>

\* The instants at which the page is loaded.
StartTimes ==
  { NewDate(1999, 11, 30) + 9, NewDate(2000, 1, 27) + 9, NewDate(2001, 1, 27) + 9 }

\* The script's top level: the handlers are registered and renderToday()
\* runs once.
InitScript ==
  /\ now \in StartTimes
  /\ \E rnd \in RandomToday : today = renderToday(now, rnd)
  /\ base7 = 0
  /\ lastEvent = "load"
  /\ calls = <<"renderToday">>
  /\ hist = <<>>
  /\ ticks = 0

NoFn ==
  /\ pc = "page"
  /\ fnArg = 0
  /\ fnOut = 0

Init == InitDOM /\ InitScript /\ NoFn

\* The host clock moves on.
Tick ==
  /\ ticks < MaxTicks
  /\ now' = now + TickStep
  /\ ticks' = ticks + 1
  /\ lastEvent' = "tick"
  /\ calls' = <<>>
  /\ UNCHANGED <<display, text, grid, today, base7, hist, pc, fnArg, fnOut>>

\* The last two (display, text) pairs seen by the click handler on entry.
Remember(h, snap) == IF Len(h) < 2 THEN Append(h, snap) ELSE <<h[2], snap>>

Click_AlwaysHideText ==
  LET show == display = "none"
  IN  /\ display' = IF show THEN "block" ELSE "none"
      /\ text' = HideText
      /\ IF show
         THEN \E draws \in RandomRuns :
                /\ grid' = render7(grid, now, draws)
                /\ base7' = now
                /\ calls' = <<"render7">>
         ELSE /\ calls' = <<>>
              /\ UNCHANGED <<grid, base7>>
      /\ hist' = Remember(hist, <<display, text>>)
      /\ lastEvent' = "click"
      /\ UNCHANGED <<now, today, ticks, pc, fnArg, fnOut>>

Click_AlwaysRender ==
  LET show == display = "none"
  IN  /\ display' = IF show THEN "block" ELSE "none"
      /\ text' = IF show THEN HideText ELSE ShowText
      /\ \E draws \in RandomRuns :
           /\ grid' = render7(grid, now, draws)
           /\ base7' = now
           /\ calls' = <<"render7">>
      /\ hist' = Remember(hist, <<display, text>>)
      /\ lastEvent' = "click"
      /\ UNCHANGED <<now, today, ticks, pc, fnArg, fnOut>>

\* toggleBtn click handler
Click ==
  LET show == display = "none"
  IN  /\ display' = IF show THEN "block" ELSE "none"
      /\ text' = IF show THEN HideText ELSE ShowText
      /\ IF show
         THEN \E draws \in RandomRuns :
                /\ grid' = render7(grid, now, draws)
                /\ base7' = now
                /\ calls' = <<"render7">>
         ELSE /\ calls' = <<>>
              /\ UNCHANGED <<grid, base7>>
      /\ hist' = Remember(hist, <<display, text>>)
      /\ lastEvent' = "click"
      /\ UNCHANGED <<now, today, ticks, pc, fnArg, fnOut>>

\* The advances of the clock between the new Date() of renderToday and the
\* new Date() of render7 inside one callback.
MidAdvance == IF ticks < MaxTicks THEN {0, TickStep} ELSE {0}

Timer_AlwaysRender7 ==
  /\ \E rnd \in RandomToday : today' = renderToday(now, rnd)
  /\ \E adv \in MidAdvance, draws \in RandomRuns :
       /\ now' = now + adv
       /\ ticks' = IF adv = 0 THEN ticks ELSE ticks + 1
       /\ grid' = render7(grid, now + adv, draws)
       /\ base7' = now + adv
       /\ calls' = <<"renderToday", "render7">>
  /\ lastEvent' = "timer"
  /\ UNCHANGED <<display, text, hist, pc, fnArg, fnOut>>

Timer_ResetsPanel ==
  /\ \E rnd \in RandomToday : today' = renderToday(now, rnd)
  /\ IF display # "none"
     THEN \E adv \in MidAdvance, draws \in RandomRuns :
            /\ now' = now + adv
            /\ ticks' = IF adv = 0 THEN ticks ELSE ticks + 1
            /\ grid' = render7(grid, now + adv, draws)
            /\ base7' = now + adv
            /\ calls' = <<"renderToday", "render7">>
     ELSE /\ calls' = <<"renderToday">>
          /\ UNCHANGED <<now, ticks, grid, base7>>
  /\ display' = "none"
  /\ text' = ShowText
  /\ lastEvent' = "timer"
  /\ UNCHANGED <<hist, pc, fnArg, fnOut>>

\* setInterval callback
Timer ==
  /\ \E rnd \in RandomToday : today' = renderToday(now, rnd)
  /\ IF display # "none"
     THEN \E adv \in MidAdvance, draws \in RandomRuns :
            /\ now' = now + adv
            /\ ticks' = IF adv = 0 THEN ticks ELSE ticks + 1
            /\ grid' = render7(grid, now + adv, draws)
            /\ base7' = now + adv
            /\ calls' = <<"renderToday", "render7">>
     ELSE /\ calls' = <<"renderToday">>
          /\ UNCHANGED <<now, ticks, grid, base7>>
  /\ lastEvent' = "timer"
  /\ UNCHANGED <<display, text, hist, pc, fnArg, fnOut>>

Next == Tick \/ Click \/ Timer

Spec == Init /\ [][Next]_vars

(***************************************************************************)
(* phaseName and the direction of moonSVG applied to the phase fractions   *)
(* fnArg / PGrid of [0, 1].                                                *)
(***************************************************************************)
PageIdle ==
  /\ InitDOM
  /\ now = NewDate(2000, 0, 6)
  /\ today = renderToday(now, 0)
  /\ base7 = 0
  /\ lastEvent = "load"
  /\ calls = <<"renderToday">>
  /\ hist = <<>>
  /\ ticks = 0

InitClassify ==
  /\ PageIdle
  /\ pc = "in"
  /\ fnArg \in 0..PGrid
  /\ fnOut = 0

Classify ==
  /\ pc = "in"
  /\ pc' = "out"
  /\ LET p == [num |-> LInt(fnArg), den |-> LInt(PGrid)]
     IN  fnOut' = [name |-> phaseName(p), dir |-> moonSVG(p, TodaySize, 0).dir]
  /\ UNCHANGED <<now, display, text, grid, today, base7, lastEvent, calls,
                 hist, ticks, fnArg>>

SpecClassify == InitClassify /\ [][Classify]_vars

(***************************************************************************)
(* moonPhase applied to the instants within SpanT ticks of the reference   *)
(* new moon, before and after it.                                          *)
(***************************************************************************)
RefTick == JDRefNewMoon - JDUnixEpoch

InitPhase ==
  /\ PageIdle
  /\ pc = "in"
  /\ fnArg \in (RefTick - SpanT)..(RefTick + SpanT)
  /\ fnOut = 0

Compute ==
  /\ pc = "in"
  /\ pc' = "out"
  /\ fnOut' = moonPhase(fnArg)
  /\ UNCHANGED <<now, display, text, grid, today, base7, lastEvent, calls,
                 hist, ticks, fnArg>>

SpecPhase == InitPhase /\ [][Compute]_vars

(***************************************************************************)
(* Properties.                                                             *)
(***************************************************************************)
InCalls(op) == \E i \in 1..Len(calls) : calls[i] = op

\* C1: after two activations of the toggle, with any refreshes and clock
\* ticks in between, display and the toggle text are what they were before
\* the first of the two.
ToggleTwiceRestores ==
  Len(hist) = 2 => <<display, text>> = hist[1]

ToggleTwiceFromExpanded ==
  /\ Len(hist) = 2
  /\ lastEvent = "click"
  /\ display = "block"
  /\ text = HideText

\* C2: a click flips the panel, calls render7 exactly when the panel becomes
\* Expanded, leaves the grid alone when it becomes Collapsed, and the text is
\* the Hide text iff the panel is Expanded.
ClickFlipsAndRenders ==
  [][lastEvent' = "click" =>
       /\ display \in {"none", "block"} /\ display' \in {"none", "block"}
       /\ display' # display
       /\ (\E i \in 1..Len(calls') : calls'[i] = "render7") <=> display' = "block"
       /\ display' = "none" => grid' = grid
       /\ text' = HideText <=> display' = "block"]_vars

ClickCollapsed ==
  /\ lastEvent = "click"
  /\ display = "none"
  /\ grid # <<>>
  /\ calls = <<>>

\* C3: a timer firing calls renderToday, calls render7 iff the panel is
\* Expanded when it fires, and does not write the grid while Collapsed.
TimerRenders ==
  [][lastEvent' = "timer" =>
       /\ \E i \in 1..Len(calls') : calls'[i] = "renderToday"
       /\ (\E i \in 1..Len(calls') : calls'[i] = "render7") <=> display # "none"
       /\ display = "none" => grid' = grid]_vars

TimerWhileCollapsed ==
  /\ lastEvent = "timer"
  /\ display = "none"
  /\ grid # <<>>
  /\ calls = <<"renderToday">>

\* C4: only a click changes display or the toggle text.
OnlyClickToggles ==
  [][lastEvent' # "click" => (display' = display /\ text' = text)]_vars

TimerWhileExpanded ==
  /\ lastEvent = "timer"
  /\ display = "block"
  /\ text = HideText
  /\ InCalls("render7")

\* The calendar date after the date c, by the length of the month.
NextCivil(c) ==
  IF c.day < DaysInMonth(c.year, c.month)
  THEN [weekday |-> (c.weekday + 1) % 7, year |-> c.year, month |-> c.month,
        day |-> c.day + 1]
  ELSE IF c.month < 11
  THEN [weekday |-> (c.weekday + 1) % 7, year |-> c.year, month |-> c.month + 1,
        day |-> 1]
  ELSE [weekday |-> (c.weekday + 1) % 7, year |-> c.year + 1, month |-> 0,
        day |-> 1]

RECURSIVE PlusDays(_, _)
PlusDays(c, i) == IF i = 0 THEN c ELSE NextCivil(PlusDays(c, i - 1))

Short(c) == [weekday |-> c.weekday, month |-> c.month, day |-> c.day]

\* C5: once render7 has run the grid holds exactly 7 cards, and the i-th
\* card shows the calendar date i days after the day read by the last
\* render7.
SevenCardsFromBase ==
  grid # <<>> =>
    /\ Len(grid) = ForecastDays
    /\ \A i \in 1..Len(grid) : grid[i].date = Short(PlusDays(fmtDate(base7), i))

RerenderAcrossMonthEnd ==
  /\ lastEvent = "timer"
  /\ InCalls("render7")
  /\ Len(grid) = ForecastDays
  /\ grid[ForecastDays].date.month # grid[1].date.month

\* C6: the phase fraction lies in [0, 1) and the age in [0, synodic), also
\* before the reference new moon.
PhaseInUnitInterval ==
  pc = "out" =>
    /\ LLe(LInt(0), fnOut.phase.num)
    /\ LLt(fnOut.phase.num, fnOut.phase.den)
    /\ LLe(LInt(0), fnOut.ageDays.num)
    /\ LLt(LMul(1000, fnOut.ageDays.num), LMul(1000, synodic))

PhaseBeforeReference ==
  /\ pc = "out"
  /\ fnArg < RefTick - 300
  /\ fnOut.phase.num # LInt(0)

\* The interval of phase fractions n / PGrid that the table gives to a name.
AtLeast(n, c) == 100 * n >= c * PGrid

Under(n, c) == 100 * n < c * PGrid

InBucket(name, n) ==
  CASE name = "New Moon"        -> Under(n, 3) \/ 100 * n > 97 * PGrid
    [] name = "Waxing Crescent" -> AtLeast(n, 3) /\ Under(n, 22)
    [] name = "First Quarter"   -> AtLeast(n, 22) /\ Under(n, 28)
    [] name = "Waxing Gibbous"  -> AtLeast(n, 28) /\ Under(n, 47)
    [] name = "Full Moon"       -> AtLeast(n, 47) /\ Under(n, 53)
    [] name = "Waning Gibbous"  -> AtLeast(n, 53) /\ Under(n, 72)
    [] name = "Last Quarter"    -> AtLeast(n, 72) /\ Under(n, 78)
    [] name = "Waning Crescent" -> AtLeast(n, 78) /\ 100 * n <= 97 * PGrid

PhaseNames ==
  {"New Moon", "Waxing Crescent", "First Quarter", "Waxing Gibbous",
   "Full Moon", "Waning Gibbous", "Last Quarter", "Waning Crescent"}

\* C7: phaseName gives every fraction of [0, 1] exactly the name whose
\* interval holds it; each boundary belongs to the later interval and 0.97
\* to Waning Crescent.
NamePartition ==
  pc = "out" =>
    /\ fnOut.name \in PhaseNames
    /\ \A name \in PhaseNames : (fnOut.name = name) <=> InBucket(name, fnArg)

NameAtBoundary ==
  /\ pc = "out"
  /\ 100 * fnArg = 22 * PGrid
  /\ fnOut.name = "First Quarter"

\* C8: the direction is +1 for the fractions named Waxing Crescent, First
\* Quarter or Waxing Gibbous and -1 for those named Waning Gibbous, Last
\* Quarter or Waning Crescent.
DirectionFollowsName ==
  pc = "out" =>
    /\ fnOut.name \in {"Waxing Crescent", "First Quarter", "Waxing Gibbous"}
         => fnOut.dir = 1
    /\ fnOut.name \in {"Waning Gibbous", "Last Quarter", "Waning Crescent"}
         => fnOut.dir = -1

\* The identifiers of the icons in the page.
IconIds == <<today.moon.id>> \o [i \in 1..Len(grid) |-> grid[i].moon.id]

\* C9: the icons in the page carry pairwise distinct identifiers.
IconIdsDistinct ==
  \A i, j \in 1..Len(IconIds) : i # j => IconIds[i] # IconIds[j]

\* C10 as stated: while Expanded, the i-th card shows the date i days after
\* the date in today's date region.
ForecastFollowsTodayRegion ==
  display = "block" =>
    \A i \in 1..Len(grid) : grid[i].date = Short(PlusDays(today.date, i))

\* C10 amended: while Expanded, the i-th card shows the date i days after
\* the date in today's date region, provided the last render7 read the
\* clock on the day that region shows.
ForecastFollowsTodaySameDay ==
  (display = "block" /\ fmtDate(base7) = today.date) =>
    /\ Len(grid) = ForecastDays
    /\ \A i \in 1..Len(grid) : grid[i].date = Short(PlusDays(today.date, i))

ExpandedOnLastDayOfMonth ==
  /\ display = "block"
  /\ fmtDate(base7) = today.date
  /\ today.date.day = DaysInMonth(today.date.year, today.date.month)
  /\ Len(grid) = ForecastDays
  /\ grid[1].date.day = 1

====
